---- MODULE Spec2Model ----
(***************************************************************************)
(* Model of src/audio/text_to_speech.py : class TextToSpeech.              *)
(*                                                                         *)
(* A text is a sequence of Unicode code points.  The gTTS synthesis        *)
(* service, the pygame mixer and the file system are collaborators whose   *)
(* calls may raise; every such outcome is a nondeterministic choice.       *)
(* A call of the class is followed step by step through the variable pc,   *)
(* so that the polling loops of _play_audio_file interleave with the       *)
(* mixer finishing its audio.                                              *)
(***************************************************************************)
EXTENDS Integers, Sequences, FiniteSets, TLC

(* ----------------------------- bounds ---------------------------------- *)

\* longest text of the detection specification, in tokens
MaxTokens == 5
\* temporary files of earlier calls that may be left on disk
MaxLeaked == 1

(* ------------------------- tables of __init__ -------------------------- *)

\* keys of self.supported_languages
SupportedLanguageTable ==
  {
    "en", "es", "fr", "de", "it", "pt", "ru", "ja", "ko", "zh", "ar",
    "hi", "bn", "ur", "tr", "pl", "nl", "sv", "da", "no", "fi", "cs",
    "hu", "ro", "sk", "bg", "hr", "sr", "uk", "el", "he", "th", "vi",
    "id", "ms", "tl", "sw", "af", "ta", "te", "ml", "kn", "gu", "pa",
    "mr", "or", "as", "ne"
  }

\* self.hinglish_keywords, each keyword as its code points
hinglish_keywords ==
  {
    <<104, 97, 105>>,  \* hai
    <<104, 97, 105, 110>>,  \* hain
    <<107, 97, 114>>,  \* kar
    <<107, 121, 97>>,  \* kya
    <<107, 97, 105, 115, 101>>,  \* kaise
    <<107, 97, 104, 97, 110>>,  \* kahan
    <<107, 97, 98>>,  \* kab
    <<107, 121, 117, 110>>,  \* kyun
    <<107, 97, 117, 110>>,  \* kaun
    <<97, 117, 114>>,  \* aur
    <<109, 97, 105, 110>>,  \* main
    <<104, 117, 109>>,  \* hum
    <<116, 117, 109>>,  \* tum
    <<97, 97, 112>>,  \* aap
    <<121, 101, 104>>,  \* yeh
    <<119, 111, 104>>,  \* woh
    <<105, 115, 107, 101>>,  \* iske
    <<117, 115, 107, 101>>,  \* uske
    <<109, 101, 114, 97>>,  \* mera
    <<116, 101, 114, 97>>,  \* tera
    <<104, 97, 109, 97, 114, 97>>,  \* hamara
    <<116, 117, 109, 104, 97, 114, 97>>,  \* tumhara
    <<97, 112, 107, 97>>,  \* apka
    <<105, 115, 107, 97>>,  \* iska
    <<117, 115, 107, 97>>,  \* uska
    <<107, 97, 114, 110, 97>>,  \* karna
    <<104, 111, 110, 97>>,  \* hona
    <<106, 97, 110, 97>>,  \* jana
    <<97, 97, 110, 97>>,  \* aana
    <<108, 101, 110, 97>>,  \* lena
    <<100, 101, 110, 97>>,  \* dena
    <<100, 101, 107, 104, 97>>,  \* dekha
    <<115, 117, 110, 97>>,  \* suna
    <<97, 99, 99, 104, 97>>,  \* accha
    <<98, 117, 114, 97>>,  \* bura
    <<98, 97, 100, 97>>,  \* bada
    <<99, 104, 111, 116, 97>>,  \* chota
    <<110, 97, 121, 97>>,  \* naya
    <<112, 117, 114, 97, 110, 97>>,  \* purana
    <<116, 104, 105, 107>>,  \* thik
    <<103, 97, 108, 97, 116>>,  \* galat
    <<98, 97, 104, 117, 116>>,  \* bahut
    <<107, 97, 109>>,  \* kam
    <<122, 121, 97, 100, 97>>,  \* zyada
    <<115, 97, 98>>,  \* sab
    <<107, 117, 99, 104>>,  \* kuch
    <<107, 111, 105>>,  \* koi
    <<115, 97, 98, 107, 111>>,  \* sabko
    <<107, 105, 115, 105, 107, 111>>   \* kisiko
  }

(* ------------------------------ texts ---------------------------------- *)

\* vocabulary of the bounded texts: "hai", "KYA", "dog" and DEVANAGARI KA
Words == { <<104, 97, 105>>, <<75, 89, 65>>, <<100, 111, 103>>, <<2325>> }




RECURSIVE JoinWords(_)
JoinWords(ws) ==
  IF ws = <<>> THEN <<>>
  ELSE IF Len(ws) = 1 THEN ws[1]
  ELSE ws[1] \o <<32>> \o JoinWords(Tail(ws))

WordSeqs(n) == UNION { [1..k -> Words] : k \in 0..n }

\* the texts of at most n tokens, with optional leading tab / trailing space
TextsUpTo(n) ==
  { lead \o JoinWords(ws) \o trail :
      ws \in WordSeqs(n), lead \in {<<>>, <<9>>}, trail \in {<<>>, <<32>>} }

Texts == TextsUpTo(MaxTokens)
\* the text handed to the methods that only pass it on to gTTS: "dog"
PlainTexts == { <<100, 111, 103>> }
\* the texts handed to the detecting methods: '', "hai", "KYA", "dog", KA
SpeakTexts == { <<>> } \cup Words

(* ----------------------- str.lower and str.split ----------------------- *)

\* str.lower on one code point: A-Z map to a-z, Devanagari has no case
LowerChar(c) == IF c >= 65 /\ c <= 90 THEN c + 32 ELSE c

lower(t) == [i \in 1..Len(t) |-> LowerChar(t[i])]

\* the code points str.split() treats as separators
IsWhitespace(c) == c \in {9, 10, 11, 12, 13, 28, 29, 30, 31, 32, 133, 160}

\* str.split() without arguments: runs of whitespace separate, no empty token
RECURSIVE split(_, _, _)
split(t, i, cur) ==
  IF i > Len(t)
    THEN IF cur = <<>> THEN <<>> ELSE <<cur>>
    ELSE IF IsWhitespace(t[i])
           THEN IF cur = <<>> THEN split(t, i + 1, <<>>)
                ELSE <<cur>> \o split(t, i + 1, <<>>)
           ELSE split(t, i + 1, Append(cur, t[i]))

(* --------------------------- LanguageRouter ---------------------------- *)

IsDevanagari(c) == c >= 2304 /\ c <= 2431

\* float thresholds of the source as exact fractions:
\*   count > len * 0.3        <=>  ScriptDen * count > ScriptNum * len
\*   count / len > 0.2        <=>  HinglishDen * count > HinglishNum * len
ScriptNum == 3
ScriptDen == 10
HinglishNum == 1
HinglishDen == 5

detect_hinglish_ge(t) ==
  LET words == split(lower(t), 1, <<>>)
      hinglish_count == Cardinality({i \in 1..Len(words) : words[i] \in hinglish_keywords})
  IN  Len(words) > 0 /\ HinglishDen * hinglish_count >= HinglishNum * Len(words)

detect_hinglish(t) ==
  LET words == split(lower(t), 1, <<>>)
      hinglish_count == Cardinality({i \in 1..Len(words) : words[i] \in hinglish_keywords})
  IN  Len(words) > 0 /\ HinglishDen * hinglish_count > HinglishNum * Len(words)

VARIABLES
  supported_languages,  \* keys of self.supported_languages
  current_language,     \* self.current_language
  slow_speech,          \* self.slow_speech
  audio_initialized,    \* self._audio_initialized
  music_busy,           \* pygame.mixer.music is playing
  sound_busy,           \* a pygame.mixer.Sound channel is playing
  tmp_exists,           \* the temporary file of the current call is on disk
  leaked,               \* temporary files of earlier calls still on disk
  pc,                   \* position of the call in progress, "idle" if none
  op,                   \* the public method called last
  text,                 \* its text argument
  language,             \* its language argument: <<>> is None, <<c>> is c
  slow,                 \* its slow argument: <<>> is None, <<b>> is b
  filename,             \* its filename argument, "" if it has none
  lang,                 \* the language handed to _generate_*
  speed,                \* the speed handed to _generate_*
  pending_exc,          \* an exception is propagating through the finally
  synthesized,          \* tts.save of the call returned normally
  synth_calls,          \* gTTS(...) constructions of the call
  tmp_created,          \* the call created a temporary file
  dest_written,         \* the call opened its destination file for writing
  engine_ops,           \* pygame operations invoked by the call
  fallback_attempts,    \* times the call entered the Sound fallback
  started_music,        \* music.play() of the call succeeded
  started_sound,        \* Sound.play() of the call succeeded
  ret                   \* value returned by the last completed call

session == <<supported_languages, current_language, slow_speech, audio_initialized>>
disk == <<tmp_exists, leaked>>
mixer == <<music_busy, sound_busy>>
frame == <<op, text, language, slow, filename, lang, speed>>
observed == <<pending_exc, synthesized, synth_calls, tmp_created, dest_written, engine_ops,
              fallback_attempts, started_music, started_sound>>
vars == <<session, mixer, disk, pc, frame, observed, ret>>

(* ------------------------------ inputs --------------------------------- *)

\* Optional[str] language arguments: None, '', an unknown code, known codes
LanguageArgs == { <<>>, <<"">>, <<"xx">>, <<"hi">> }
\* Optional[bool] slow arguments
SlowArgs == { <<>>, <<TRUE>>, <<FALSE>> }
\* codes handed to set_language
LanguageCodes == { "hi", "xx", "" }
Filenames == { "out.mp3" }

(* --------------------- auto_detect_language ---------------------------- *)

auto_detect_language_no_script(t) ==
  IF detect_hinglish(t) THEN "hi" ELSE current_language

auto_detect_language(t) ==
  LET devanagari_count == Cardinality({i \in 1..Len(t) : IsDevanagari(t[i])})
  IN  IF ScriptDen * devanagari_count > ScriptNum * Len(t) THEN "hi"
      ELSE IF detect_hinglish(t) THEN "hi"
      ELSE current_language

(* ------------------------- construction -------------------------------- *)

\* __init__ followed by _init_audio: pygame.mixer.init() succeeds or raises
Init ==
  /\ supported_languages = SupportedLanguageTable
  /\ current_language = "en"
  /\ slow_speech = FALSE
  /\ audio_initialized \in BOOLEAN
  /\ music_busy = FALSE
  /\ sound_busy = FALSE
  /\ tmp_exists = FALSE
  /\ leaked = 0
  /\ pc = "idle"
  /\ op = "__init__"
  /\ text = <<>>
  /\ language = <<>>
  /\ slow = <<>>
  /\ filename = ""
  /\ lang = "en"
  /\ speed = FALSE
  /\ pending_exc = FALSE
  /\ synthesized = FALSE
  /\ synth_calls = <<>>
  /\ tmp_created = FALSE
  /\ dest_written = FALSE
  /\ engine_ops = {}
  /\ fallback_attempts = 0
  /\ started_music = FALSE
  /\ started_sound = FALSE
  /\ ret = "None"

(* --------------------------- call frames ------------------------------- *)

\* a public method is entered: its arguments are recorded, the per-call
\* observations start empty, a temporary file left by the previous call
\* joins the leaked ones
Enter(name, t, l, s, fn) ==
  /\ pc = "idle"
  /\ op' = name
  /\ text' = t
  /\ language' = l
  /\ slow' = s
  /\ filename' = fn
  /\ leaked' = IF tmp_exists THEN leaked + 1 ELSE leaked

\* Python's str(bool)
Bool(b) == IF b THEN "True" ELSE "False"

Return(v) == pc' = "idle" /\ ret' = v

\* `language or self.current_language`: None and '' are both falsy
EffectiveLanguage(l) ==
  IF l = <<>> \/ l = <<"">> THEN current_language ELSE l[1]

\* `slow if slow is not None else self.slow_speech`
EffectiveSpeed(s) == IF s = <<>> THEN slow_speech ELSE s[1]

NoSynthesis == synth_calls' = <<>> /\ synthesized' = FALSE /\ dest_written' = FALSE

NoTemp == tmp_created' = FALSE /\ tmp_exists' = FALSE /\ pending_exc' = FALSE

NoPlayback ==
  /\ engine_ops' = {}
  /\ fallback_attempts' = 0
  /\ started_music' = FALSE
  /\ started_sound' = FALSE

\* a method without language and speed resolution
NoRouting == lang' = "" /\ speed' = FALSE

(* --------------------------- the setters ------------------------------- *)

set_language_unchecked(language_code) ==
  /\ Enter("set_language", <<>>, <<language_code>>, <<>>, "")
  /\ current_language' = language_code
  /\ Return("True")
  /\ NoRouting /\ NoSynthesis /\ NoTemp /\ NoPlayback
  /\ UNCHANGED <<supported_languages, slow_speech, audio_initialized,
                 mixer>>

set_language(language_code) ==
  /\ Enter("set_language", <<>>, <<language_code>>, <<>>, "")
  /\ IF language_code \in supported_languages
       THEN current_language' = language_code /\ Return("True")
       ELSE current_language' = current_language /\ Return("False")
  /\ NoRouting /\ NoSynthesis /\ NoTemp /\ NoPlayback
  /\ UNCHANGED <<supported_languages, slow_speech, audio_initialized,
                 mixer>>

set_speed(s) ==
  /\ Enter("set_speed", <<>>, <<>>, <<s>>, "")
  /\ slow_speech' = s
  /\ Return("None")
  /\ NoRouting /\ NoSynthesis /\ NoTemp /\ NoPlayback
  /\ UNCHANGED <<supported_languages, current_language, audio_initialized,
                 mixer>>

\* returns self.supported_languages.copy()
get_supported_languages ==
  /\ Enter("get_supported_languages", <<>>, <<>>, <<>>, "")
  /\ Return("dict")
  /\ NoRouting /\ NoSynthesis /\ NoTemp /\ NoPlayback
  /\ UNCHANGED <<session, mixer>>

(* ------------------------ language detection --------------------------- *)

DetectHinglish(t) ==
  /\ Enter("detect_hinglish", t, <<>>, <<>>, "")
  /\ Return(Bool(detect_hinglish(t)))
  /\ NoRouting /\ NoSynthesis /\ NoTemp /\ NoPlayback
  /\ UNCHANGED <<session, mixer>>

AutoDetectLanguage(t) ==
  /\ Enter("auto_detect_language", t, <<>>, <<>>, "")
  /\ Return(auto_detect_language(t))
  /\ NoRouting /\ NoSynthesis /\ NoTemp /\ NoPlayback
  /\ UNCHANGED <<session, mixer>>

(* ----------------------------- synthesis ------------------------------- *)

\* _generate_audio: the part of the step that concerns gTTS and the
\* destination file; result is the value the method returns
generate_audio(l, s, fn, result) ==
  \/ /\ l \notin supported_languages
     /\ result = FALSE
     /\ NoSynthesis
  \/ /\ l \in supported_languages
     /\ synth_calls' = <<[lang |-> l, slow |-> s]>>
     /\ \/ \* gTTS(...) raises
           /\ result = FALSE
           /\ synthesized' = FALSE
           /\ dest_written' = FALSE
        \/ \* tts.save raises, before or after opening the destination
           /\ result = FALSE
           /\ synthesized' = FALSE
           /\ dest_written' \in BOOLEAN
        \/ \* tts.save returns
           /\ result = TRUE
           /\ synthesized' = TRUE
           /\ dest_written' = TRUE

\* _generate_and_play up to the call of _play_audio_file
generate_and_play(l, s) ==
  \/ /\ l \notin supported_languages
     /\ synth_calls' = <<>>
     /\ synthesized' = FALSE
     /\ NoTemp
     /\ Return("False")
  \/ /\ l \in supported_languages
     /\ synth_calls' = <<[lang |-> l, slow |-> s]>>
     /\ \/ \* gTTS(...) or NamedTemporaryFile raises: outer except
           /\ synthesized' = FALSE
           /\ NoTemp
           /\ Return("False")
        \/ \* the temporary file exists, tts.save raises into the finally
           /\ tmp_created' = TRUE
           /\ tmp_exists' = TRUE
           /\ pending_exc' = TRUE
           /\ synthesized' = FALSE
           /\ pc' = "cleanup"
           /\ UNCHANGED ret
        \/ \* the temporary file holds the audio
           /\ tmp_created' = TRUE
           /\ tmp_exists' = TRUE
           /\ pending_exc' = FALSE
           /\ synthesized' = TRUE
           /\ pc' = IF audio_initialized THEN "play_audio_file" ELSE "cleanup"
           /\ UNCHANGED ret

(* --------------------------- facade methods ---------------------------- *)

SpeakWithStickyLanguage(name, t, l, s) ==
  /\ Enter(name, t, l, s, "")
  /\ lang' = EffectiveLanguage(l)
  /\ speed' = EffectiveSpeed(s)
  /\ generate_and_play(EffectiveLanguage(l), EffectiveSpeed(s))
  /\ dest_written' = FALSE
  /\ NoPlayback
  /\ current_language' = EffectiveLanguage(l)
  /\ UNCHANGED <<supported_languages, slow_speech, audio_initialized, mixer>>

SpeakWith(name, t, l, s) ==
  /\ Enter(name, t, l, s, "")
  /\ lang' = EffectiveLanguage(l)
  /\ speed' = EffectiveSpeed(s)
  /\ generate_and_play(EffectiveLanguage(l), EffectiveSpeed(s))
  /\ dest_written' = FALSE
  /\ NoPlayback
  /\ UNCHANGED <<session, mixer>>

speak(t, l, s) == SpeakWith("speak", t, l, s)

save(t, fn, l, s) ==
  \E result \in BOOLEAN :
    /\ Enter("save", t, l, s, fn)
    /\ lang' = EffectiveLanguage(l)
    /\ speed' = EffectiveSpeed(s)
    /\ generate_audio(EffectiveLanguage(l), EffectiveSpeed(s), fn, result)
    /\ Return(Bool(result))
    /\ NoTemp /\ NoPlayback
    /\ UNCHANGED <<session, mixer>>

speak_and_save(t, fn, l, s) ==
  \E result \in BOOLEAN :
    /\ Enter("speak_and_save", t, l, s, fn)
    /\ lang' = EffectiveLanguage(l)
    /\ speed' = EffectiveSpeed(s)
    /\ generate_audio(EffectiveLanguage(l), EffectiveSpeed(s), fn, result)
    /\ IF result
         THEN IF audio_initialized
                THEN pc' = "play_audio_file" /\ UNCHANGED ret
                ELSE Return("True")
         ELSE Return("False")
    /\ NoTemp /\ NoPlayback
    /\ UNCHANGED <<session, mixer>>

speak_hinglish(t, s, auto_detect) ==
  LET l == IF auto_detect THEN auto_detect_language(t) ELSE "hi"
  IN  SpeakWith("speak_hinglish", t, <<l>>, <<s>>)

(* ------------------------------ playback ------------------------------- *)

\* the file _play_audio_file is asked to play is on disk
AudioFileExists ==
  IF op = "speak_and_save" THEN dest_written ELSE tmp_exists

\* _play_audio_file has returned None to its caller: speak_and_save
\* returns True, _generate_and_play goes on to its finally block
AfterPlay ==
  IF op = "speak_and_save"
    THEN Return("True")
    ELSE pc' = "cleanup" /\ UNCHANGED ret

\* _play_audio_file up to the first poll: music.load and music.play
PlayAudioFile ==
  /\ pc = "play_audio_file"
  /\ IF ~audio_initialized \/ ~AudioFileExists
       THEN /\ AfterPlay
            /\ UNCHANGED <<mixer, engine_ops, started_music>>
       ELSE \/ \* music.load raises; the stream loaded before is untouched
               /\ engine_ops' = engine_ops \cup {"music.load"}
               /\ pc' = "fallback"
               /\ UNCHANGED <<mixer, started_music, ret>>
            \/ \* music.load replaces the stream, music.play raises
               /\ engine_ops' = engine_ops \cup {"music.load", "music.play"}
               /\ music_busy' = FALSE
               /\ pc' = "fallback"
               /\ UNCHANGED <<sound_busy, started_music, ret>>
            \/ \* playback starts
               /\ engine_ops' = engine_ops \cup {"music.load", "music.play"}
               /\ music_busy' = TRUE
               /\ started_music' = TRUE
               /\ pc' = "music_wait"
               /\ UNCHANGED <<sound_busy, ret>>
  /\ UNCHANGED <<session, disk, frame, pending_exc, synthesized, synth_calls,
                 tmp_created, dest_written, fallback_attempts, started_sound>>

\* one iteration of `while pygame.mixer.music.get_busy(): time.sleep(0.1)`
MusicWait ==
  /\ pc = "music_wait"
  /\ engine_ops' = engine_ops \cup {"music.get_busy"}
  /\ \/ \* get_busy raises: the except branch starts the fallback
        pc' = "fallback" /\ UNCHANGED ret
     \/ music_busy /\ pc' = "music_wait" /\ UNCHANGED ret
     \/ ~music_busy /\ AfterPlay
  /\ UNCHANGED <<session, mixer, disk, frame, pending_exc,
                 synthesized, synth_calls, tmp_created, dest_written, fallback_attempts,
                 started_music, started_sound>>

\* the except branch: pygame.mixer.Sound(filename) and sound.play()
Fallback ==
  /\ pc = "fallback"
  /\ fallback_attempts' = fallback_attempts + 1
  /\ \/ \* Sound(filename) raises
        /\ engine_ops' = engine_ops \cup {"Sound"}
        /\ AfterPlay
        /\ UNCHANGED <<sound_busy, started_sound>>
     \/ \* sound.play() raises
        /\ engine_ops' = engine_ops \cup {"Sound", "Sound.play"}
        /\ AfterPlay
        /\ UNCHANGED <<sound_busy, started_sound>>
     \/ \* the sound plays on a channel
        /\ engine_ops' = engine_ops \cup {"Sound", "Sound.play"}
        /\ sound_busy' = TRUE
        /\ started_sound' = TRUE
        /\ pc' = "sound_wait"
        /\ UNCHANGED ret
  /\ UNCHANGED <<session, music_busy, disk, frame, pending_exc,
                 synthesized, synth_calls, tmp_created, dest_written, started_music>>

\* one iteration of `while pygame.mixer.get_busy(): time.sleep(0.1)`
SoundWait ==
  /\ pc = "sound_wait"
  /\ engine_ops' = engine_ops \cup {"mixer.get_busy"}
  /\ \/ \* get_busy raises: "Alternative playback also failed"
        AfterPlay
     \/ sound_busy /\ pc' = "sound_wait" /\ UNCHANGED ret
     \/ ~sound_busy /\ AfterPlay
  /\ UNCHANGED <<session, mixer, disk, frame, pending_exc,
                 synthesized, synth_calls, tmp_created, dest_written, fallback_attempts,
                 started_music, started_sound>>

\* the finally block of _generate_and_play, then `return True` or the
\* outer except with `return False`
Cleanup ==
  /\ pc = "cleanup"
  /\ IF tmp_exists
       THEN \/ tmp_exists' = FALSE                        \* os.unlink
            \/ leaked < MaxLeaked /\ tmp_exists' = TRUE   \* os.unlink raises
       ELSE tmp_exists' = FALSE
  /\ Return(IF pending_exc THEN "False" ELSE "True")
  /\ UNCHANGED <<session, mixer, leaked, frame,
                 observed>>

stop_unguarded ==
  /\ Enter("stop", <<>>, <<>>, <<>>, "")
  /\ engine_ops' = {"music.stop"}
  /\ music_busy' = FALSE
  /\ UNCHANGED sound_busy
  /\ fallback_attempts' = 0 /\ started_music' = FALSE /\ started_sound' = FALSE
  /\ Return("None")
  /\ NoRouting /\ NoSynthesis /\ NoTemp
  /\ UNCHANGED <<session>>

stop ==
  /\ Enter("stop", <<>>, <<>>, <<>>, "")
  /\ IF audio_initialized
       THEN /\ engine_ops' = {"music.stop"}
            /\ music_busy' = FALSE
            /\ UNCHANGED sound_busy
       ELSE /\ engine_ops' = {}
            /\ UNCHANGED mixer
  /\ fallback_attempts' = 0 /\ started_music' = FALSE /\ started_sound' = FALSE
  /\ Return("None")
  /\ NoRouting /\ NoSynthesis /\ NoTemp
  /\ UNCHANGED <<session>>

is_playing ==
  /\ Enter("is_playing", <<>>, <<>>, <<>>, "")
  /\ IF audio_initialized
       THEN engine_ops' = {"music.get_busy"} /\ Return(Bool(music_busy))
       ELSE engine_ops' = {} /\ Return("False")
  /\ fallback_attempts' = 0 /\ started_music' = FALSE /\ started_sound' = FALSE
  /\ NoRouting /\ NoSynthesis /\ NoTemp
  /\ UNCHANGED <<session, mixer>>

(* ----------------------------- the mixer ------------------------------- *)

\* the music stream reaches its end
MusicFinishes ==
  /\ music_busy
  /\ music_busy' = FALSE
  /\ UNCHANGED <<session, sound_busy, disk, pc, frame, observed, ret>>

\* the Sound channel reaches its end
SoundFinishes ==
  /\ sound_busy
  /\ sound_busy' = FALSE
  /\ UNCHANGED <<session, music_busy, disk, pc, frame, observed, ret>>

(* --------------------------- specifications ---------------------------- *)

Next ==
  \/ \E c \in LanguageCodes : set_language(c)
  \/ \E s \in BOOLEAN : set_speed(s)
  \/ get_supported_languages
  \/ \E t \in SpeakTexts : DetectHinglish(t)
  \/ \E t \in SpeakTexts : AutoDetectLanguage(t)
  \/ \E t \in PlainTexts, l \in LanguageArgs, s \in SlowArgs : speak(t, l, s)
  \/ \E t \in PlainTexts, fn \in Filenames, l \in LanguageArgs, s \in SlowArgs :
       save(t, fn, l, s)
  \/ \E t \in PlainTexts, fn \in Filenames, l \in LanguageArgs, s \in SlowArgs :
       speak_and_save(t, fn, l, s)
  \/ \E t \in SpeakTexts, s \in BOOLEAN, a \in BOOLEAN : speak_hinglish(t, s, a)
  \/ PlayAudioFile
  \/ MusicWait
  \/ Fallback
  \/ SoundWait
  \/ Cleanup
  \/ stop
  \/ is_playing
  \/ MusicFinishes
  \/ SoundFinishes

Spec == Init /\ [][Next]_vars

\* the detection functions on every bounded text, under every session
\* language the setter can have installed
DetectLanguages == { "en", "hi", "ta" }

InitDetect ==
  /\ supported_languages = SupportedLanguageTable
  /\ current_language \in DetectLanguages
  /\ slow_speech = FALSE
  /\ audio_initialized = TRUE
  /\ music_busy = FALSE
  /\ sound_busy = FALSE
  /\ tmp_exists = FALSE
  /\ leaked = 0
  /\ pc = "idle"
  /\ op = "set_language"
  /\ text \in Texts
  /\ language = <<>>
  /\ slow = <<>>
  /\ filename = ""
  /\ lang = ""
  /\ speed = FALSE
  /\ pending_exc = FALSE
  /\ synthesized = FALSE
  /\ synth_calls = <<>>
  /\ tmp_created = FALSE
  /\ dest_written = FALSE
  /\ engine_ops = {}
  /\ fallback_attempts = 0
  /\ started_music = FALSE
  /\ started_sound = FALSE
  /\ ret = "None"

NextDetect ==
  \/ AutoDetectLanguage(text)
  \/ DetectHinglish(text)

SpecDetect == InitDetect /\ [][NextDetect]_vars

(* ======================================================================= *)
(*                              properties                                 *)
(* ======================================================================= *)

Returned(names) == pc = "idle" /\ op \in names

\* the language code a caller asked for: the supplied value, or the
\* session default when the argument is None
RequestedLanguage == IF language = <<>> THEN current_language ELSE language[1]

NoExternalEffect ==
  /\ synth_calls = <<>>
  /\ ~tmp_created
  /\ ~dest_written
  /\ engine_ops = {}

\* C1: speak, save and speak_and_save return False when the requested
\* language (supplied, or the session default when none is supplied) is no
\* key of the table, and have by then called neither gTTS nor the mixer and
\* created neither a temporary nor a destination file.
C1_UnsupportedRejected ==
  (Returned({"speak", "save", "speak_and_save"})
     /\ RequestedLanguage \notin SupportedLanguageTable)
    => (ret = "False" /\ NoExternalEffect)

(* ------------------- detection, checked under SpecDetect --------------- *)

InDevanagariBlock(c) == c \in 2304..2431

DevanagariChars(t) == Len(SelectSeq(t, InDevanagariBlock))

\* positions where a whitespace-separated token starts
TokenStarts(t) ==
  { i \in 1..Len(t) : ~IsWhitespace(t[i]) /\ (i = 1 \/ IsWhitespace(t[i - 1])) }

\* the token that starts at position i
TokenAt(t, i) ==
  LET last == CHOOSE j \in i..Len(t) :
                /\ \A k \in i..j : ~IsWhitespace(t[k])
                /\ (j = Len(t) \/ IsWhitespace(t[j + 1]))
  IN  SubSeq(t, i, last)

Tokens(t) == Cardinality(TokenStarts(t))

KeywordTokens(t) ==
  Cardinality({ i \in TokenStarts(t) : lower(TokenAt(t, i)) \in hinglish_keywords })

Detected == pc = "idle" /\ op = "auto_detect_language"

\* C2 as stated: a non-empty text whose Devanagari characters are at least
\* 30% of its characters, exactly 30% included, is detected as "hi".
C2_AtLeastThirtyPercent ==
  (Detected /\ Len(text) > 0 /\ 10 * DevanagariChars(text) >= 3 * Len(text))
    => ret = "hi"

\* C2 amended: a text whose Devanagari characters are strictly more than
\* 30% of its characters is detected as "hi", whatever its tokens and
\* whatever the session language.
C2_MoreThanThirtyPercent ==
  (Detected /\ 10 * DevanagariChars(text) > 3 * Len(text)) => ret = "hi"

\* more than 30% Devanagari, no keyword token, session language not "hi"
C2_Witness ==
  /\ Detected
  /\ 10 * DevanagariChars(text) > 3 * Len(text)
  /\ 10 * DevanagariChars(text) < 4 * Len(text)
  /\ Tokens(text) > 0
  /\ KeywordTokens(text) = 0
  /\ current_language = "en"
  /\ ret = "hi"

\* C3 as stated: without Devanagari characters the result is "hi" if and only
\* if the keyword tokens are strictly more than one fifth of the tokens, and
\* otherwise it is the session language.
C3_HindiIffKeywordRatio ==
  (Detected /\ DevanagariChars(text) = 0)
    => /\ (ret = "hi") <=> (5 * KeywordTokens(text) > Tokens(text))
       /\ (5 * KeywordTokens(text) <= Tokens(text)) => ret = current_language

\* C3 amended: without Devanagari characters the result is "hi" if the
\* keyword tokens are strictly more than one fifth of the tokens, and
\* otherwise (exactly one fifth and zero tokens included) it is the session
\* language, which may itself be "hi".
C3_KeywordRatioRouting ==
  (Detected /\ DevanagariChars(text) = 0)
    => ret = IF 5 * KeywordTokens(text) > Tokens(text) THEN "hi"
             ELSE current_language

\* exactly one keyword among five tokens falls back to the session language
C3_Witness ==
  /\ Detected
  /\ DevanagariChars(text) = 0
  /\ Tokens(text) = 5
  /\ KeywordTokens(text) = 1
  /\ current_language = "en"
  /\ ret = "en"

(* ----------------------- checked under Spec ---------------------------- *)

\* C4: a language a caller supplies to speak, save or speak_and_save is the
\* value validated and handed to gTTS, and when it is no key of the table
\* (the empty string included) the call returns False.
C4_ExplicitLanguageVerbatim ==
  (op \in {"speak", "save", "speak_and_save"} /\ language # <<>>)
    => /\ lang = language[1]
       /\ \A i \in 1..Len(synth_calls) : synth_calls[i].lang = language[1]
       /\ (pc = "idle" /\ language[1] \notin SupportedLanguageTable)
            => ret = "False"

\* C5: the session language is always a key of the table; set_language(code)
\* returns True and installs code when code is a key, returns False and
\* leaves the session language alone when it is not; the language
\* speak_hinglish hands to synthesis is a key of the table.
C5_CurrentLanguageSupported ==
  /\ [](/\ current_language \in supported_languages
        /\ Returned({"set_language"})
             => ret = Bool(language[1] \in SupportedLanguageTable)
        /\ op = "speak_hinglish" => lang \in supported_languages)
  /\ [][op' = "set_language"
          => current_language' = IF language'[1] \in SupportedLanguageTable
                                   THEN language'[1]
                                   ELSE current_language]_vars

\* set_language has refused a code and kept the language installed before
C5_Witness ==
  /\ Returned({"set_language"})
  /\ language = <<"xx">>
  /\ ret = "False"
  /\ current_language = "hi"

\* C6: when a playback-only speak call returns, the temporary file it
\* created is gone, on every exit path, and no earlier call has left one.
C6_NoTemporaryFileLeft ==
  pc = "idle" => (~tmp_exists /\ leaked = 0)

\* C7: when the mixer raises in the primary strategy, one fallback is
\* attempted, and when the fallback fails too speak and speak_hinglish
\* return False.
C7_PlaybackFailureSurfaced ==
  (Returned({"speak", "speak_hinglish"}) /\ fallback_attempts > 0)
    => /\ fallback_attempts = 1
       /\ ~started_sound => ret = "False"

\* C8: when speak or speak_and_save returns, the mixer is not playing audio
\* the call started, neither as music nor as a Sound.
C8_ReturnsAfterPlayback ==
  Returned({"speak", "speak_and_save"})
    => /\ ~(started_music /\ music_busy)
       /\ ~(started_sound /\ sound_busy)

\* C9: the readiness flag never changes after construction; while it is
\* False no mixer operation is invoked and nothing plays, is_playing
\* returns False, and speak and speak_and_save still call gTTS for a
\* supported language and return True when synthesis succeeds.
C9_PlaybackUnavailableIsCached ==
  /\ [][audio_initialized' = audio_initialized]_vars
  /\ [](~audio_initialized =>
          /\ engine_ops = {}
          /\ ~music_busy /\ ~sound_busy
          /\ pc \in {"idle", "cleanup"}
          /\ Returned({"is_playing"}) => ret = "False"
          /\ (Returned({"speak", "speak_and_save"}) /\ lang \in SupportedLanguageTable)
               => /\ Len(synth_calls) = 1
                  /\ synthesized => ret = "True")

\* without a mixer, speak has synthesised and returned True
C9_Witness ==
  /\ ~audio_initialized
  /\ Returned({"speak"})
  /\ synthesized
  /\ ret = "True"

\* C10: only set_language changes the session language and only set_speed
\* the default speed; the readiness flag and the table never change; a call
\* that omits language or slow uses the session value.
C10_OnlySettersChangeSession ==
  /\ [][/\ supported_languages' = supported_languages
        /\ audio_initialized' = audio_initialized
        /\ current_language' # current_language => op' = "set_language"
        /\ slow_speech' # slow_speech => op' = "set_speed"]_vars
  /\ []((op \in {"speak", "save", "speak_and_save"}) =>
          /\ language = <<>> => lang = current_language
          /\ slow = <<>> => speed = slow_speech)

\* after a call with both overrides the session still has its defaults
C10_Witness ==
  /\ Returned({"speak"})
  /\ language = <<"hi">> /\ slow = <<TRUE>>
  /\ ret = "True"
  /\ current_language = "en" /\ slow_speech = FALSE
====
